---- MODULE Spec2Model ----
(***************************************************************************)
(* A model of the python-tester harness of witnet-rust:                    *)
(*   docker/python-tester/result.py   the Result type                      *)
(*   docker/python-tester/testlib.py  the runner, the steps, the waiters   *)
(*   docker/python-tester/example.py  the example suite                    *)
(*                                                                         *)
(* Three specifications share the state:                                   *)
(*   Spec      execute_tests over suites of port_is_up, jsonrpc_request,   *)
(*             poll(...) and into_context(...) steps                       *)
(*   SpecWait  execute_tests over a suite of one wait_for_next_block step, *)
(*             the peer's notification stream being an input               *)
(*   SpecPure  single calls of jsonrpc_check_result and of the             *)
(*             data-request lifecycle predicates                           *)
(***************************************************************************)
EXTENDS Integers, Sequences, FiniteSets, TLC

VARIABLES
    args,          \* the arguments execute_tests was first called with: [tests, prev]
    tests,         \* the tests still to run (the parameter of the pending execute_tests)
    prev,          \* the accumulated Result (the parameter of the pending execute_tests)
    context,       \* testlib.context, the shared dictionary
    pc,            \* where the run is
    retries_left,  \* the parameter of the pending poll / wait_for_next_block call
    stdout,        \* what was printed, in order
    calls,         \* every call execute_test and poll made of a plain step, with what it returned
    attempts,      \* the poll step being (last) run: its place i in the suite and what
                   \* its inner calls returned, in order
    stream,        \* the messages the peer has sent that jsonrpc_read has not read yet
    reads,         \* the messages read by the wait_for_next_block step, each with decide's verdict
    retries,       \* the retries the wait_for_next_block step made
    fn_call,       \* SpecPure: the call to make, [fn, ...arguments]
    fn_ret         \* SpecPure: what the call returned

vars == << args, tests, prev, context, pc, retries_left, stdout, calls, attempts,
           stream, reads, retries, fn_call, fn_ret >>

pollVars == << retries_left, attempts >>
waitVars == << stream, reads, retries >>
pureVars == << fn_call, fn_ret >>

----------------------------------------------------------------------------
(* Bounds *)

MaxSteps == 3        \* the longest suite
MaxRetries == 3      \* the largest max_retries given to poll and wait_for_next_block
MaxStream == 4       \* the most messages the peer sends during one wait
MaxTxns == 2         \* the most transactions of one category in a block
MaxWitnesses == 2    \* the largest witnesses of a data request output
MaxResult == 2       \* the largest 'result' (and 'error') of a JSON-RPC response

----------------------------------------------------------------------------
(* result.py *)

Ok(value) == [ok |-> TRUE, value |-> value]

Err(error) == [ok |-> FALSE, error |-> error]

\* isinstance(r, Ok)
isOk(r) == r.ok

----------------------------------------------------------------------------
(* Values.  Every kind of value is a record with field names of its own.   *)

Unit == [unit |-> TRUE]                 \* the () of execute_tests' default prev

Str(s) == [str |-> s]                   \* a Python string

\* Python's None
None == [none |-> TRUE]

Num(n) == [int |-> n]

\* key in obj
Has(obj, key) == key \in DOMAIN obj

\* an exception that leaves the function
Raise(exception) == [raised |-> exception]

\* bool(val), the truth value Python's 'if val:' tests: None, (), 0 and ''
\* are false
Truthy(val) ==
    CASE Has(val, "none") -> FALSE
      [] Has(val, "unit") -> FALSE
      [] Has(val, "int") -> val.int # 0
      [] Has(val, "str") -> val.str # ""
      [] OTHER -> TRUE

Last(s) == s[Len(s)]

\* The sequences over S of length 0..n
SeqUpTo(S, n) == UNION { [1..k -> S] : k \in 0..n }

----------------------------------------------------------------------------
(* The steps of testlib.py.  A step called with the context ctx and the    *)
(* input v yields a set of outcomes [result, context]: one outcome for a   *)
(* step that only computes, one per answer of the outside world otherwise. *)

\* the key of the request counter in the context
LAST_ID == "last_id"

\* the caller-named stash slots (example.py uses "bitcoin_price_json" and
\* "bitcoin_price"); a stash slot is none of the harness's own keys
StashKeys == {"bitcoin_price"}

\* context = {'last_id': 0}
context_init == [k \in {LAST_ID} |-> 0]

\* port_is_up(ip, port): Ok when connect_ex returns 0, Err otherwise
port_is_up(ctx, v) ==
    { [result |-> Ok(Str("server is up")), context |-> ctx],
      [result |-> Err(Str("server is NOT up")), context |-> ctx] }

\* jsonrpc_request with the raised counter never stored back
jsonrpc_request_NotStored(ctx, v) ==
    LET id == ctx[LAST_ID]
        req == [jsonrpc |-> "2.0", method |-> "witnet_subscribe", id |-> id]
    IN  { [result |-> Ok([json |-> req]), context |-> ctx] }

\* jsonrpc_request(method, params): the request carries the counter, which is
\* then raised; json.dumps(req) is kept as the request object it serialises
jsonrpc_request(ctx, v) ==
    LET id == ctx[LAST_ID]
        ctx1 == [ctx EXCEPT ![LAST_ID] = ctx[LAST_ID] + 1]
        req == [jsonrpc |-> "2.0", method |-> "witnet_subscribe", id |-> id]
    IN  { [result |-> Ok([json |-> req]), context |-> ctx1] }

\* into_context(key): context[key] = val; return Ok(val)
into_context(key, ctx, val) ==
    LET ctx1 == [k \in DOMAIN ctx \cup {key} |-> IF k = key THEN val ELSE ctx[k]]
    IN  { [result |-> Ok(val), context |-> ctx1] }

\* from_context(key): val = context.get(key); if val: Ok(val), else Err
from_context(key, ctx, v) ==
    LET val == IF key \in DOMAIN ctx THEN ctx[key] ELSE None
    IN  { [ result |-> IF Truthy(val)
                          THEN Ok(val)
                          ELSE Err([str |-> "no key in context", key |-> key]),
            context |-> ctx ] }

\* the key of the connection in the context
SOCK == "sock"

\* tcp_connect(ip, port): on connect_ex returning 0 the socket is put in the
\* context
tcp_connect(ctx, v) ==
    { [ result |-> Ok(Str("successful TCP connection")),
        context |-> [k \in DOMAIN ctx \cup {SOCK} |->
                        IF k = SOCK THEN [socket |-> TRUE] ELSE ctx[k]] ],
      [ result |-> Err(Str("failed to open TCP connection")), context |-> ctx ] }

\* jsonrpc_write(v): sock = context.get('sock') is None without a
\* connection and sock.sendall raises AttributeError; so does v.strip() on
\* an input that is no string
jsonrpc_write(ctx, v) ==
    LET sock == IF SOCK \in DOMAIN ctx THEN ctx[SOCK] ELSE None
    IN  { [ result |-> IF Has(sock, "none") \/ ~Has(v, "str")
                          THEN Raise("AttributeError")
                          ELSE Ok(Str("sent request")),
            context |-> ctx ] }

\* The step descriptors
FromContext(key) == [fn |-> "from_context", key |-> key]
TcpConnect == [fn |-> "tcp_connect"]
JsonrpcWrite == [fn |-> "jsonrpc_write"]
PortIsUp == [fn |-> "port_is_up"]
JsonrpcRequest == [fn |-> "jsonrpc_request"]
IntoContext(key) == [fn |-> "into_context", key |-> key]
Poll(inner, n) == [fn |-> "poll", inner |-> inner, max_retries |-> n]

\* calling the step function test on v
Call(test, ctx, v) ==
    CASE test.fn = "port_is_up" -> port_is_up(ctx, v)
      [] test.fn = "jsonrpc_request" -> jsonrpc_request(ctx, v)
      [] test.fn = "into_context" -> into_context(test.key, ctx, v)
      [] test.fn = "from_context" -> from_context(test.key, ctx, v)
      [] test.fn = "tcp_connect" -> tcp_connect(ctx, v)
      [] test.fn = "jsonrpc_write" -> jsonrpc_write(ctx, v)

----------------------------------------------------------------------------
(* stdout *)

\* execute_test: print("[ %s ]\nRunning test '%s'...")
Running(i) == [line |-> "running", i |-> i]

\* execute_test: print("%s\n" % result_string), the Ok or Err line of step i
Report(i, result) == [line |-> "result", i |-> i, result |-> result]

\* print_success_banner
Banner == [line |-> "banner"]

\* poll.retry: print("\tWill retry test ...")
WillRetry(n) == [line |-> "will retry", retries_left |-> n]

\* the position in the suite of the test at the head of tests
Index == Len(args.tests) - Len(tests) + 1

----------------------------------------------------------------------------
(* execute_tests *)

\* execute_tests calling execute_test(tests[0], ...) whatever prev is, the
\* and_then left out
ExecuteTestsStep_NoAndThen ==
    /\ pc = "execute_tests"
    /\ tests # << >>
    /\ Head(tests).fn \notin {"poll", "wait_for_next_block"}
    /\ \E o \in Call(Head(tests), context, IF isOk(prev) THEN prev.value ELSE Unit) :
          /\ stdout' = stdout \o << Running(Index), Report(Index, o.result) >>
          /\ calls' = Append(calls, [fn |-> Head(tests).fn, result |-> o.result])
          /\ prev' = o.result
          /\ context' = o.context
    /\ tests' = Tail(tests)
    /\ UNCHANGED << args, pc, pollVars, waitVars, pureVars >>

\* execute_tests, tests not empty and prev Ok, the test a plain step:
\* result = execute_test(tests[0], v); prev.or_else(abort) does nothing;
\* execute_tests(tests[1:], result)
ExecuteTestsStep ==
    /\ pc = "execute_tests"
    /\ tests # << >>
    /\ isOk(prev)
    /\ Head(tests).fn \notin {"poll", "wait_for_next_block"}
    /\ \E o \in Call(Head(tests), context, prev.value) :
          /\ ~Has(o.result, "raised")
          /\ stdout' = stdout \o << Running(Index), Report(Index, o.result) >>
          /\ calls' = Append(calls, [fn |-> Head(tests).fn, result |-> o.result])
          /\ prev' = o.result
          /\ context' = o.context
    /\ tests' = Tail(tests)
    /\ UNCHANGED << args, pc, pollVars, waitVars, pureVars >>

\* execute_test has printed the header and the test raises: the exception
\* leaves execute_test and execute_tests, the interpreter prints a traceback
\* and the run is over
ExecuteTestsRaised ==
    /\ pc = "execute_tests"
    /\ tests # << >>
    /\ isOk(prev)
    /\ Head(tests).fn \notin {"poll", "wait_for_next_block"}
    /\ \E o \in Call(Head(tests), context, prev.value) :
          /\ Has(o.result, "raised")
          /\ stdout' = Append(stdout, Running(Index))
    /\ pc' = "raised"
    /\ UNCHANGED << args, tests, prev, context, calls, pollVars, waitVars, pureVars >>

\* execute_tests, tests not empty and prev Err: result = prev;
\* prev.or_else(abort) calls sys.exit(1)
ExecuteTestsAbort ==
    /\ pc = "execute_tests"
    /\ tests # << >>
    /\ ~isOk(prev)
    /\ pc' = "exit"
    /\ UNCHANGED << args, tests, prev, context, stdout, calls, pollVars, waitVars, pureVars >>

\* execute_tests printing the banner whatever prev is
ExecuteTestsEnd_AlwaysBanner ==
    /\ pc = "execute_tests"
    /\ tests = << >>
    /\ stdout' = Append(stdout, Banner)
    /\ pc' = "returned"
    /\ UNCHANGED << args, tests, prev, context, calls, pollVars, waitVars, pureVars >>

\* execute_tests, tests empty: prev.and_then(print_success_banner); return tests
ExecuteTestsEnd ==
    /\ pc = "execute_tests"
    /\ tests = << >>
    /\ stdout' = IF isOk(prev) THEN Append(stdout, Banner) ELSE stdout
    /\ pc' = "returned"
    /\ UNCHANGED << args, tests, prev, context, calls, pollVars, waitVars, pureVars >>

----------------------------------------------------------------------------
(* poll *)

\* execute_test prints the header and calls poll(prev): retries_left=max_retries
PollEnter ==
    /\ pc = "execute_tests"
    /\ tests # << >>
    /\ isOk(prev)
    /\ Head(tests).fn = "poll"
    /\ stdout' = Append(stdout, Running(Index))
    /\ retries_left' = Head(tests).max_retries
    /\ attempts' = [i |-> Index, outs |-> << >>]
    /\ pc' = "poll"
    /\ UNCHANGED << args, tests, prev, context, calls, waitVars, pureVars >>

\* poll.retry retrying while retries_left > 0
poll_retry_again_OneMore(left) == left > 0

\* poll.retry: if retries_left > 1
poll_retry_again(left) == left > 1

\* poll.retry(reason, retries_left), the Err it may end with
poll_exhausted(max_retries) ==
    Err([msg |-> "didn't succeed after retries", max_retries |-> max_retries])

\* the step has returned result: execute_test prints it, execute_tests goes on
StepReturns(result) ==
    /\ stdout' = Append(stdout, Report(Index, result))
    /\ prev' = result
    /\ tests' = Tail(tests)
    /\ pc' = "execute_tests"

\* poll(prev, retries_left): inner_function(prev).or_else(retry)
PollAttempt ==
    /\ pc = "poll"
    /\ \E o \in Call(Head(tests).inner, context, prev.value) :
          /\ calls' = Append(calls, [fn |-> Head(tests).inner.fn, result |-> o.result])
          /\ attempts' = [attempts EXCEPT !.outs = Append(@, o.result)]
          /\ context' = o.context
          /\ IF isOk(o.result)
                THEN /\ StepReturns(o.result)
                     /\ UNCHANGED retries_left
                ELSE IF poll_retry_again(retries_left)
                        THEN /\ retries_left' = retries_left - 1
                             /\ stdout' = Append(stdout, WillRetry(retries_left - 1))
                             /\ UNCHANGED << prev, tests, pc >>
                        ELSE /\ StepReturns(poll_exhausted(Head(tests).max_retries))
                             /\ UNCHANGED retries_left
    /\ UNCHANGED << args, waitVars, pureVars >>

----------------------------------------------------------------------------
(* Spec: the runs of execute_tests over suites of plain and polled steps *)

Steps ==
    {PortIsUp, JsonrpcRequest}
    \cup { Poll(PortIsUp, n) : n \in 1..MaxRetries }
    \cup { Poll(JsonrpcRequest, MaxRetries) }
    \cup { IntoContext(k) : k \in StashKeys }

Suites == SeqUpTo(Steps, MaxSteps)

\* execute_tests(tests, prev=Ok(()))
InitialResults == { Ok(Unit), Err(Str("failed before")) }

InitRun(suites, results) ==
    /\ args \in [tests : suites, prev : results]
    /\ tests = args.tests
    /\ prev = args.prev
    /\ context = context_init
    /\ pc = "execute_tests"
    /\ retries_left = 0
    /\ stdout = << >>
    /\ calls = << >>
    /\ attempts = [i |-> 0, outs |-> << >>]
    /\ reads = << >>
    /\ retries = 0
    /\ fn_call = Unit
    /\ fn_ret = Unit

Init ==
    /\ InitRun(Suites, InitialResults)
    /\ stream = << >>

Next ==
    \/ ExecuteTestsStep
    \/ ExecuteTestsAbort
    \/ ExecuteTestsEnd
    \/ PollEnter
    \/ PollAttempt

Spec == Init /\ [][Next]_vars

----------------------------------------------------------------------------
(* Blocks, requests and the peer's messages *)

\* a data request output
Dro(data_request, witnesses) == [data_request |-> data_request, witnesses |-> witnesses]

\* the request that was sent to the node, as json_parse returns it
Request(dro) == [jsonrpc |-> "2.0", method |-> "witnet_sendRequest", params |-> [dro |-> dro]]

\* the transactions of a block
DrTx(dro) == [body |-> [dr_output |-> dro]]
CommitTx(dr_pointer) == [body |-> [dr_pointer |-> dr_pointer]]
RevealTx(dr_pointer) == [body |-> [dr_pointer |-> dr_pointer]]
TallyTx(dr_pointer) == [body |-> [dr_pointer |-> dr_pointer]]

Block(checkpoint, drs, commits, reveals) ==
    [ block_header |-> [beacon |-> [checkpoint |-> checkpoint]],
      txns |-> [ data_request_txns |-> drs, commit_txns |-> commits,
                 reveal_txns |-> reveals, tally_txns |-> << >> ] ]

\* the block with tallies as its tally_txns
WithTallies(block, tallies) == [block EXCEPT !.txns.tally_txns = tallies]

\* a notification of the "blocks" subscription
Announcement(block) ==
    [jsonrpc |-> "2.0", method |-> "witnet_subscription",
     params |-> [subscription |-> 1, result |-> block]]

\* a notification of another subscription, and a response: neither is a block
OtherNotification(n) ==
    [jsonrpc |-> "2.0", method |-> "witnet_subscription",
     params |-> [subscription |-> 2, result |-> [status |-> n]]]
Response(n) == [jsonrpc |-> "2.0", id |-> n, result |-> TRUE]

\* decide: 'params' in res and ... 'result' in res['params'] and ...
\* 'block_header' in res['params']['result'] (every params and every
\* params.result a peer sends here is an object)
is_block(res) ==
    /\ "params" \in DOMAIN res
    /\ "result" \in DOMAIN res.params
    /\ "block_header" \in DOMAIN res.params.result

----------------------------------------------------------------------------
(* The data-request lifecycle predicates *)

\* the object without one of its keys
Without(obj, key) == [k \in DOMAIN obj \ {key} |-> obj[k]]

\* block['block_header']['beacon']['checkpoint'] raises KeyError
no_checkpoint(block) ==
    ~ ( /\ Has(block, "block_header")
        /\ Has(block.block_header, "beacon")
        /\ Has(block.block_header.beacon, "checkpoint") )

\* block['txns'][category] raises KeyError
no_txns(block, category) ==
    ~ ( /\ Has(block, "txns")
        /\ Has(block.txns, category) )

\* request['params']['dro'] raises KeyError
no_dro(request) ==
    ~ ( /\ Has(request, "params")
        /\ Has(request.params, "dro") )

\* request['params']['dro']['witnesses'] raises KeyError
no_witnesses(request) ==
    \/ no_dro(request)
    \/ ~Has(request.params.dro, "witnesses")

\* "unknown error.\n\tBlock was ...\n\tRequest was ..."
UnknownError(block, request) ==
    [str |-> "unknown error", block |-> block, request |-> request]

\* block_contains_dr without the comparison with the request's dro: any data
\* request in the block will do
block_contains_dr_AnyDr(block, request) ==
    LET drs == block.txns.data_request_txns
    IN  IF Len(drs) > 0
           THEN Ok(block)
           ELSE Err(Str("there are no data requests inside"))

\* block_contains_dr(block, request); the bare except turns a KeyError into
\* Err
block_contains_dr(block, request) ==
    IF \/ no_checkpoint(block)
       \/ no_txns(block, "data_request_txns")
       \/ Len(block.txns.data_request_txns) > 0 /\ no_dro(request)
       THEN Err(UnknownError(block, request))
       ELSE
    LET drs == block.txns.data_request_txns
    IN  IF Len(drs) > 0
           THEN LET matches == SelectSeq(drs,
                        LAMBDA dr : dr.body.dr_output = request.params.dro)
                IN  IF Len(matches) > 0
                       THEN Ok(block)
                       ELSE Err(Str("the data request was not included"))
           ELSE Err(Str("there are no data requests inside"))

\* "there are not enough commitments (%d < %d)" and the like
NotEnough(what, have, rf) == [str |-> what, have |-> have, rf |-> rf]

\* block_contains_commitments_for_dr asking for more than rf commitments
block_contains_commitments_for_dr_Strict(block, request) ==
    LET commits == block.txns.commit_txns
        rf == request.params.dro.witnesses
    IN  IF Len(commits) > 0
           THEN IF Len(commits) > rf
                   THEN Ok(block)
                   ELSE Err(NotEnough("there are not enough commitments", Len(commits), rf))
           ELSE Err(Str("there are no commitments inside"))

\* block_contains_commitments_for_dr(block, request); 'except ValueError'
\* is the only handler (the 'else:' clause runs when nothing was raised), so a
\* KeyError leaves the function
block_contains_commitments_for_dr(block, request) ==
    IF \/ no_checkpoint(block)
       \/ no_txns(block, "commit_txns")
       \/ Len(block.txns.commit_txns) > 0 /\ no_witnesses(request)
       THEN Raise("KeyError")
       ELSE
    LET commits == block.txns.commit_txns
    IN  IF Len(commits) > 0
           THEN LET matches == SelectSeq(commits, LAMBDA tx : TRUE)
                IN  IF Len(matches) > 0
                       THEN LET rf == request.params.dro.witnesses
                            IN  IF Len(matches) >= rf
                                   THEN Ok(block)
                                   ELSE Err(NotEnough("there are not enough commitments",
                                                      Len(matches), rf))
                       ELSE Err(Str("there are no commitments for the specific data request"))
           ELSE Err(Str("there are no commitments inside"))

\* block_contains_reveals_for_dr(block, request); the bare except turns a
\* KeyError into Err
block_contains_reveals_for_dr(block, request) ==
    IF \/ no_checkpoint(block)
       \/ no_txns(block, "reveal_txns")
       \/ Len(block.txns.reveal_txns) > 0 /\ no_witnesses(request)
       THEN Err(UnknownError(block, request))
       ELSE
    LET reveals == block.txns.reveal_txns
    IN  IF Len(reveals) > 0
           THEN LET matches == SelectSeq(reveals, LAMBDA tx : TRUE)
                IN  IF Len(matches) > 0
                       THEN LET rf == request.params.dro.witnesses
                            IN  IF Len(matches) >= rf
                                   THEN Ok(block)
                                   ELSE Err(NotEnough("there are not enough reveals",
                                                      Len(matches), rf))
                       ELSE Err(Str("there are no reveals for the specific data request"))
           ELSE Err(Str("there are no reveals inside"))

\* block_contains_tally_for_dr accepting any number of tallies but zero
block_contains_tally_for_dr_AtLeastOne(block, request) ==
    IF Len(block.txns.tally_txns) > 0
       THEN Ok(block)
       ELSE Err(Str("there are no tallies inside"))

\* block_contains_tally_for_dr(block, request); the bare except turns a
\* KeyError into Err
block_contains_tally_for_dr(block, request) ==
    IF no_checkpoint(block) \/ no_txns(block, "tally_txns")
       THEN Err(UnknownError(block, request))
       ELSE
    LET tallies == block.txns.tally_txns
    IN  IF Len(tallies) > 0
           THEN LET matches == SelectSeq(tallies, LAMBDA tx : TRUE)
                IN  IF Len(matches) = 1
                       THEN Ok(block)
                       ELSE IF Len(matches) > 1
                               THEN Err([str |-> "there are too many tallies for the specific data request",
                                         have |-> Len(matches)])
                               ELSE Err(Str("there is no tally for the specific data request"))
           ELSE Err(Str("there are no tallies inside"))

\* wait_for_next_block's default filter_function: lambda block, prev: Ok(block)
default_filter(block, input) == Ok(block)

\* filter_function(block, prev)
filter_function(name, block, input) ==
    CASE name = "default" -> default_filter(block, input)
      [] name = "block_contains_dr" -> block_contains_dr(block, input)
      [] name = "block_contains_commitments_for_dr" ->
            block_contains_commitments_for_dr(block, input)
      [] name = "block_contains_reveals_for_dr" ->
            block_contains_reveals_for_dr(block, input)
      [] name = "block_contains_tally_for_dr" ->
            block_contains_tally_for_dr(block, input)

----------------------------------------------------------------------------
(* wait_for_next_block *)

Wait(max_retries, filter) ==
    [fn |-> "wait_for_next_block", max_retries |-> max_retries, filter |-> filter]

\* wait_for_next_block.retry: print("\tIgnoring block for checkpoint ...")
IgnoringBlock(checkpoint, n) ==
    [line |-> "ignoring block", checkpoint |-> checkpoint, retries_left |-> n]

\* wait_for_next_block.decide: print("\tIgnored this message ...")
IgnoredMessage == [line |-> "ignored message"]

\* wait_for_next_block.retry giving up one block earlier
wait_retry_again_OneLess(left) == left > 2

\* wait_for_next_block.retry allowing one block more
wait_retry_again_OneMore(left) == left > 0

\* wait_for_next_block.retry: if retries_left > 1
wait_retry_again(left) == left > 1

\* wait_for_next_block.retry ending with Ok
wait_exhausted_AsOk(max_retries) ==
    Ok([msg |-> "couldn't find a block passing the filter", max_retries |-> max_retries])

\* wait_for_next_block.retry, the Err it may end with
wait_exhausted(max_retries) ==
    Err([msg |-> "couldn't find a block passing the filter", max_retries |-> max_retries])

\* decide, the message not a block: return wait_for_next_block(prev), the
\* retries_left of that call being the default, max_retries
after_ignored(max_retries, left) == max_retries

\* execute_test prints the header and calls wait_for_next_block(prev):
\* retries_left=max_retries
WaitEnter ==
    /\ pc = "execute_tests"
    /\ tests # << >>
    /\ isOk(prev)
    /\ Head(tests).fn = "wait_for_next_block"
    /\ stdout' = Append(stdout, Running(Index))
    /\ retries_left' = Head(tests).max_retries
    /\ reads' = << >>
    /\ retries' = 0
    /\ pc' = "wait_for_next_block"
    /\ UNCHANGED << args, tests, prev, context, calls, attempts, stream, pureVars >>

\* wait_for_next_block(prev, retries_left): jsonrpc_read(prev).and_then(decide),
\* jsonrpc_read returning the next message of the peer
WaitRead ==
    /\ pc = "wait_for_next_block"
    /\ stream # << >>
    /\ stream' = Tail(stream)
    /\ LET res == Head(stream)
           max_retries == Head(tests).max_retries
       IN  IF is_block(res)
              THEN LET block == res.params.result
                       checkpoint == block.block_header.beacon.checkpoint
                       found == filter_function(Head(tests).filter, block, prev.value)
                   IN  IF isOk(found)
                          THEN /\ reads' = Append(reads, [msg |-> res, verdict |-> "passed"])
                               /\ StepReturns(found)
                               /\ UNCHANGED << retries_left, retries >>
                          ELSE /\ reads' = Append(reads, [msg |-> res, verdict |-> "failed"])
                               /\ IF wait_retry_again(retries_left)
                                     THEN /\ retries_left' = retries_left - 1
                                          /\ retries' = retries + 1
                                          /\ stdout' = Append(stdout,
                                                IgnoringBlock(checkpoint, retries_left - 1))
                                          /\ UNCHANGED << prev, tests, pc >>
                                     ELSE /\ StepReturns(wait_exhausted(max_retries))
                                          /\ UNCHANGED << retries_left, retries >>
              ELSE /\ reads' = Append(reads, [msg |-> res, verdict |-> "ignored"])
                   /\ stdout' = Append(stdout, IgnoredMessage)
                   /\ retries_left' = after_ignored(max_retries, retries_left)
                   /\ UNCHANGED << prev, tests, pc, retries >>
    /\ UNCHANGED << args, context, calls, attempts, pureVars >>

----------------------------------------------------------------------------
(* SpecWait: execute_tests([wait_for_next_block(n, filter)], Ok(request))  *)
(* against every stream of up to MaxStream messages                        *)

\* the data request the suite tracks, and another one
TheDro == Dro(1, 1)
OtherDro == Dro(2, 1)
TheRequest == Request(TheDro)

\* the i-th message of a stream, by its kind; the checkpoint of a block is
\* its place in the stream
Message(kind, i) ==
    CASE kind = "response" -> Response(i)
      [] kind = "notification" -> OtherNotification(i)
      [] kind = "empty" -> Announcement(Block(i, << >>, << >>, << >>))
      [] kind = "other" -> Announcement(Block(i, << DrTx(OtherDro) >>, << >>, << >>))
      [] kind = "included" -> Announcement(Block(i, << DrTx(OtherDro), DrTx(TheDro) >>, << >>, << >>))

MessageKinds == {"response", "notification", "empty", "other", "included"}

Streams == { [i \in DOMAIN kinds |-> Message(kinds[i], i)] : kinds \in SeqUpTo(MessageKinds, MaxStream) }

WaitSuites == { << Wait(n, f) >> : n \in 0..MaxRetries, f \in {"default", "block_contains_dr"} }

InitWait ==
    /\ InitRun(WaitSuites, {Ok(TheRequest)})
    /\ stream \in Streams

NextWait ==
    \/ WaitEnter
    \/ WaitRead
    \/ ExecuteTestsEnd

SpecWait == InitWait /\ [][NextWait]_vars

----------------------------------------------------------------------------
(* jsonrpc_check_result *)

\* dict.get(key): the value, or None
get(json, key) == IF key \in DOMAIN json THEN Num(json[key]) ELSE None

\* the checker functions of the repository, on an integer result:
\* example.py, lambda id: int(id) > 0; jsonrpc_success, lambda result:
\* result == True (in Python 1 == True and no other integer does)
checker_function(name, result) ==
    CASE name = "positive_id" -> result > 0
      [] name = "is_true" -> result = 1

Checkers == {"positive_id", "is_true"}

\* jsonrpc_check_result never calling the checker: any 'result' is a success
jsonrpc_check_result_NoChecker(checker, json) ==
    IF "result" \in DOMAIN json
       THEN Ok([str |-> "raw request was successful and the result was positive",
                result |-> get(json, "result")])
       ELSE Err([str |-> "raw request failed", error |-> get(json, "error")])

\* jsonrpc_check_result(checker_function)(json)
jsonrpc_check_result(checker, json) ==
    IF "result" \in DOMAIN json
       THEN LET checker_result == checker_function(checker, json["result"])
            IN  IF checker_result = TRUE
                   THEN Ok([str |-> "raw request was successful and the result was positive",
                            result |-> get(json, "result")])
                   ELSE Err([str |-> "raw request was successfully executed but the result was negative",
                             result |-> get(json, "result")])
       ELSE Err([str |-> "raw request failed", error |-> get(json, "error")])

----------------------------------------------------------------------------
(* SpecPure: one call of jsonrpc_check_result or of a lifecycle predicate, *)
(* over every argument within the bounds                                   *)

----------------------------------------------------------------------------
(* Result.and_then over functions given as tables, with a log of the calls  *)
(* made to them.                                                            *)

\* a function of one value returning a Result
Fn(name, table) == [kind |-> "fn", name |-> name, table |-> table]

\* lambda x: first(x).and_then(next)
Then(first, next) == [kind |-> "then", first |-> first, next |-> next]

RECURSIVE and_then(_, _, _)
RECURSIVE Invoke(_, _, _)

\* b_function(value): its result, and the log with this call added
Invoke(b_function, value, log) ==
    IF b_function.kind = "then"
       THEN LET inner == Invoke(b_function.first, value, log)
            IN  and_then(inner.result, b_function.next, inner.log)
       ELSE [ result |-> b_function.table[value],
              log |-> Append(log, [fn |-> b_function.name, arg |-> value]) ]

\* and_then calling b_function a second time on Ok
and_then_Twice(self, b_function, log) ==
    IF isOk(self)
       THEN Invoke(b_function, self.value, Invoke(b_function, self.value, log).log)
       ELSE [result |-> self, log |-> log]

\* Result.and_then(self, b_function)
and_then(self, b_function, log) ==
    IF isOk(self)
       THEN Invoke(b_function, self.value, log)
       ELSE [result |-> self, log |-> log]


\* decoded JSON-RPC responses: 'result' and 'error' each present or not
Responses ==
    UNION { [keys -> (-1)..MaxResult] : keys \in SUBSET {"result", "error"} }

Dros == { Dro(d, w) : d \in 1..2, w \in 0..MaxWitnesses }

DrTxs == { DrTx(dro) : dro \in Dros }
CommitTxs == { CommitTx(d) : d \in 1..2 }
RevealTxs == { RevealTx(d) : d \in 1..2 }
TallyTxs == { TallyTx(d) : d \in 1..2 }

\* what the categories a predicate does not read hold: nothing, or one each
Others == { << >>, << 1 >> }

Vals == { Num(0), Num(1) }
Results == { Ok(v) : v \in Vals } \cup { Err(Str(e)) : e \in {"a", "b"} }
Tables == [Vals -> Results]

AndThenCalls ==
    { [fn |-> "and_then", self |-> r, f |-> Fn("f", f), g |-> Fn("g", g)] :
         r \in Results, f \in Tables, g \in Tables }

CheckResultCalls ==
    { [fn |-> "jsonrpc_check_result", checker |-> c, json |-> j] :
         c \in Checkers, j \in Responses }

BlockCalls(fn, blocks) ==
    { [fn |-> fn, block |-> b, request |-> Request(dro)] : b \in blocks, dro \in Dros }

PureCalls ==
    CheckResultCalls
    \cup AndThenCalls
    \cup BlockCalls("block_contains_dr",
            { Block(1, drs, [j \in DOMAIN o |-> CommitTx(1)], [j \in DOMAIN o |-> RevealTx(1)]) :
                 drs \in SeqUpTo(DrTxs, MaxTxns), o \in Others })
    \cup BlockCalls("block_contains_commitments_for_dr",
            { Block(1, [j \in DOMAIN o |-> DrTx(TheDro)], commits, [j \in DOMAIN o |-> RevealTx(1)]) :
                 commits \in SeqUpTo(CommitTxs, MaxTxns), o \in Others })
    \cup BlockCalls("block_contains_reveals_for_dr",
            { Block(1, [j \in DOMAIN o |-> DrTx(TheDro)], [j \in DOMAIN o |-> CommitTx(1)], reveals) :
                 reveals \in SeqUpTo(RevealTxs, MaxTxns), o \in Others })
    \cup BlockCalls("block_contains_tally_for_dr",
            { WithTallies(Block(1, [j \in DOMAIN o |-> DrTx(TheDro)], [j \in DOMAIN o |-> CommitTx(1)],
                                [j \in DOMAIN o |-> RevealTx(1)]), tallies) :
                 tallies \in SeqUpTo(TallyTxs, MaxTxns), o \in Others })

InitPure ==
    /\ fn_call \in PureCalls
    /\ fn_ret = None
    /\ pc = "call"
    /\ args = [tests |-> << >>, prev |-> Ok(Unit)]
    /\ tests = << >>
    /\ prev = Ok(Unit)
    /\ context = context_init
    /\ retries_left = 0
    /\ stdout = << >>
    /\ calls = << >>
    /\ attempts = [i |-> 0, outs |-> << >>]
    /\ stream = << >>
    /\ reads = << >>
    /\ retries = 0

Returns(result) ==
    /\ fn_ret' = result
    /\ pc' = IF Has(result, "raised") THEN "raised" ELSE "returned"
    /\ UNCHANGED << fn_call, args, tests, prev, context, stdout, calls, pollVars, waitVars >>

CallJsonrpcCheckResult ==
    /\ pc = "call"
    /\ fn_call.fn = "jsonrpc_check_result"
    /\ Returns(jsonrpc_check_result(fn_call.checker, fn_call.json))

CallBlockContainsDr ==
    /\ pc = "call"
    /\ fn_call.fn = "block_contains_dr"
    /\ Returns(block_contains_dr(fn_call.block, fn_call.request))

CallBlockContainsCommitmentsForDr ==
    /\ pc = "call"
    /\ fn_call.fn = "block_contains_commitments_for_dr"
    /\ Returns(block_contains_commitments_for_dr(fn_call.block, fn_call.request))

CallBlockContainsRevealsForDr ==
    /\ pc = "call"
    /\ fn_call.fn = "block_contains_reveals_for_dr"
    /\ Returns(block_contains_reveals_for_dr(fn_call.block, fn_call.request))

CallBlockContainsTallyForDr ==
    /\ pc = "call"
    /\ fn_call.fn = "block_contains_tally_for_dr"
    /\ Returns(block_contains_tally_for_dr(fn_call.block, fn_call.request))

\* r.and_then(f), r.and_then(f).and_then(g) and
\* r.and_then(lambda x: f(x).and_then(g))
CallAndThen ==
    /\ pc = "call"
    /\ fn_call.fn = "and_then"
    /\ LET first == and_then(fn_call.self, fn_call.f, << >>)
           chained == and_then(first.result, fn_call.g, first.log)
           nested == and_then(fn_call.self, Then(fn_call.f, fn_call.g), << >>)
       IN  Returns([first |-> first, chained |-> chained, nested |-> nested])

NextPure ==
    \/ CallJsonrpcCheckResult
    \/ CallBlockContainsDr
    \/ CallBlockContainsCommitmentsForDr
    \/ CallBlockContainsRevealsForDr
    \/ CallBlockContainsTallyForDr
    \/ CallAndThen

SpecPure == InitPure /\ [][NextPure]_vars

----------------------------------------------------------------------------
(* What a run has shown *)

RunningLines == SelectSeq(stdout, LAMBDA e : e.line = "running")

ResultLines == SelectSeq(stdout, LAMBDA e : e.line = "result")

BannerLines == SelectSeq(stdout, LAMBDA e : e.line = "banner")

RequestCalls == SelectSeq(calls, LAMBDA c : c.fn = "jsonrpc_request")

Ended == pc \in {"returned", "exit"}

\* the steps whose Err line was printed
Failed == { j \in 1..Len(ResultLines) : ~isOk(ResultLines[j].result) }

----------------------------------------------------------------------------
(* C1..C5 *)

\* C1: execute_tests short-circuits.  The steps invoked, and the result lines
\* printed, are steps 1, 2, ... of the suite in order; once a step has returned
\* Err no later step is invoked; with an initial Err no step is invoked; and a
\* run that has ended has invoked exactly the steps up to the first Err (all
\* of them when none failed).
C1_ShortCircuit ==
    /\ \A j \in 1..Len(RunningLines) : RunningLines[j].i = j
    /\ \A j \in 1..Len(ResultLines) : ResultLines[j].i = j
    /\ Len(RunningLines) <= Len(args.tests)
    /\ Len(ResultLines) = IF pc = "poll" THEN Len(RunningLines) - 1 ELSE Len(RunningLines)
    /\ \A j \in Failed : Len(RunningLines) = j
    /\ ~isOk(args.prev) => RunningLines = << >> /\ calls = << >>
    /\ Ended =>
          Len(RunningLines) =
             IF ~isOk(args.prev) THEN 0
             ELSE IF Failed # {} THEN CHOOSE j \in Failed : TRUE
             ELSE Len(args.tests)

\* a suite of three whose second step failed: the run has ended, the third never ran
C1_Witness ==
    /\ pc = "exit"
    /\ Len(args.tests) = 3
    /\ Len(ResultLines) = 2
    /\ isOk(ResultLines[1].result)
    /\ ~isOk(ResultLines[2].result)

\* C2: whenever the final accumulated Result is Err the run ends by abort
\* (sys.exit(1)), wherever the failing step stands in the suite, the last
\* place included, and also for an empty suite with an initial Err.
C2_ErrEndsInAbort == (Ended /\ ~isOk(prev)) => pc = "exit"

\* C3: the banner is printed at most once, only by a run that has returned
\* after its last step, never by a run that aborted; and a run that has ended
\* printed it if and only if the initial Result was Ok and every step of the
\* suite returned Ok.
C3_Banner ==
    /\ Len(BannerLines) <= 1
    /\ Len(BannerLines) = 1 =>
          /\ Last(stdout) = Banner
          /\ tests = << >>
          /\ pc = "returned"
    /\ pc = "exit" => BannerLines = << >>
    /\ Ended =>
          ( Len(BannerLines) = 1 <=>
               /\ isOk(args.prev)
               /\ Len(ResultLines) = Len(args.tests)
               /\ Failed = {} )

\* a suite of at least two steps that all returned Ok, and the banner printed
C3_Witness ==
    /\ pc = "returned"
    /\ Len(args.tests) >= 2
    /\ Len(BannerLines) = 1

C5_Poll ==
    attempts.i > 0 =>
       LET n == args.tests[attempts.i].max_retries
           outs == attempts.outs
           done == Len(ResultLines) >= attempts.i
       IN  /\ n >= 1
           /\ Len(outs) <= n
           /\ \A j \in 1..(Len(outs) - 1) : ~isOk(outs[j])
           /\ ~done => pc = "poll" /\ \A j \in 1..Len(outs) : ~isOk(outs[j])
           /\ done =>
                 LET r == ResultLines[attempts.i].result
                 IN  /\ Len(outs) >= 1
                     /\ isOk(r) <=> isOk(Last(outs))
                     /\ isOk(r) => r = Last(outs)
                     /\ ~isOk(r) => Len(outs) = n /\ r = poll_exhausted(n)

\* a poll with three tries that returned Ok on the third
C5_Witness ==
    /\ attempts.i > 0
    /\ Len(attempts.outs) = 3
    /\ isOk(Last(attempts.outs))
    /\ Len(ResultLines) >= attempts.i

----------------------------------------------------------------------------
(* C6, C7: wait_for_next_block *)

\* the stream the peer sent, read or not
Stream0 == [j \in 1..Len(reads) |-> reads[j].msg] \o stream

TheWait == args.tests[1]

\* the filter's answer on the j-th message of the stream, a block
Filtered(j) == filter_function(TheWait.filter, Stream0[j].params.result, args.prev.value)

\* the stream starts with k messages that are no blocks, then two blocks the
\* filter refuses, then one it accepts
Scenario(k) ==
    /\ Len(Stream0) >= k + 3
    /\ \A j \in 1..k : ~is_block(Stream0[j])
    /\ \A j \in (k + 1)..(k + 3) : is_block(Stream0[j])
    /\ ~isOk(Filtered(k + 1))
    /\ ~isOk(Filtered(k + 2))
    /\ isOk(Filtered(k + 3))

\* the wait_for_next_block step has returned
WaitReturned == pc # "wait_for_next_block" /\ tests = << >>

\* on such a stream the step returned Ok with the third block after two retries
ThirdBlock(k) ==
    /\ prev = Ok(Stream0[k + 3].params.result)
    /\ Len(reads) = k + 3
    /\ retries = 2

\* C6, as claimed: for every k >= 0 and every max_retries >= 2, on a stream
\* of k non-block messages, two blocks failing the filter and one passing it,
\* wait_for_next_block returns Ok with the third block after exactly 2 retries.
C6_Original ==
    \A k \in 0..Len(Stream0) :
       (Scenario(k) /\ TheWait.max_retries >= 2 /\ WaitReturned) => ThirdBlock(k)

\* C6, amended: the same for every max_retries >= 3.
C6_ThirdBlock ==
    \A k \in 0..Len(Stream0) :
       (Scenario(k) /\ TheWait.max_retries >= 3 /\ WaitReturned) => ThirdBlock(k)

\* a non-block message, two refused blocks, one accepted, max_retries 3
C6_Witness ==
    /\ Scenario(1)
    /\ TheWait.max_retries = 3
    /\ WaitReturned
    /\ isOk(prev)

\* C7: a message that is not a block announcement leaves the retry budget of
\* the wait as it was: retries_left after it equals retries_left before it.
C7_IgnoredKeepsBudget ==
    [][ ( /\ pc = "wait_for_next_block"
          /\ stream # << >>
          /\ ~is_block(Head(stream)) ) => retries_left' = retries_left ]_vars

----------------------------------------------------------------------------
(* C8..C10: jsonrpc_check_result and the lifecycle predicates *)

\* the call of fn has returned
Returned(fn) == pc = "returned" /\ fn_call.fn = fn

\* C8: jsonrpc_check_result(predicate) returns Ok if and only if the response
\* has a 'result' and the predicate is true of it; without 'result' it returns
\* Err, with a 'result' the predicate refuses it returns Err; a response with
\* result 1 checked with 'id > 0' yields Ok.
C8_CheckResult ==
    Returned("jsonrpc_check_result") =>
       LET json == fn_call.json
           has == "result" \in DOMAIN json
       IN  /\ isOk(fn_ret) <=> (has /\ checker_function(fn_call.checker, json["result"]))
           /\ ~has => ~isOk(fn_ret)
           /\ (has /\ ~checker_function(fn_call.checker, json["result"])) => ~isOk(fn_ret)
           /\ (has /\ json["result"] = 1 /\ fn_call.checker = "positive_id") => isOk(fn_ret)

\* the subscription response, result 1 and no error, checked with 'id > 0'
C8_Witness ==
    /\ Returned("jsonrpc_check_result")
    /\ fn_call.checker = "positive_id"
    /\ DOMAIN fn_call.json = {"result"}
    /\ fn_call.json["result"] = 1
    /\ isOk(fn_ret)

\* C9: block_contains_dr returns Ok(block) if and only if data_request_txns is
\* not empty and one of its transactions has a dr_output equal to the request's
\* dro; an empty collection yields Err('there are no data requests inside'), a
\* collection with no equal output Err('the data request was not included').
C9_BlockContainsDr ==
    Returned("block_contains_dr") =>
       LET drs == fn_call.block.txns.data_request_txns
           included == \E j \in 1..Len(drs) :
                          drs[j].body.dr_output = fn_call.request.params.dro
       IN  /\ isOk(fn_ret) <=> (Len(drs) > 0 /\ included)
           /\ isOk(fn_ret) => fn_ret = Ok(fn_call.block)
           /\ Len(drs) = 0 => fn_ret = Err(Str("there are no data requests inside"))
           /\ (Len(drs) > 0 /\ ~included) =>
                 fn_ret = Err(Str("the data request was not included"))

\* two data requests in the block, the second the one asked for
C9_Witness ==
    /\ Returned("block_contains_dr")
    /\ Len(fn_call.block.txns.data_request_txns) = 2
    /\ fn_call.block.txns.data_request_txns[1].body.dr_output # fn_call.request.params.dro
    /\ fn_call.block.txns.data_request_txns[2].body.dr_output = fn_call.request.params.dro
    /\ fn_ret = Ok(fn_call.block)

\* the transactions the quorum predicate fn counts
Counted(fn) ==
    IF fn = "block_contains_commitments_for_dr"
       THEN fn_call.block.txns.commit_txns
       ELSE fn_call.block.txns.reveal_txns

QuorumPredicates == {"block_contains_commitments_for_dr", "block_contains_reveals_for_dr"}

\* C10, as claimed: with c commit (reveal) transactions in the block and a
\* witnesses threshold w >= 0, the predicate returns Ok(block) if and only if
\* c >= w.
C10_Original ==
    \A fn \in QuorumPredicates :
       Returned(fn) =>
          ( fn_ret = Ok(fn_call.block) <=>
               Len(Counted(fn)) >= fn_call.request.params.dro.witnesses )

\* C10, amended: the predicate returns Ok(block) if and only if c >= w and
\* c >= 1, every transaction of the category counting whatever data request it
\* targets; block_contains_reveals_for_dr obeys the same rule on reveal_txns.
C10_Quorum ==
    \A fn \in QuorumPredicates :
       Returned(fn) =>
          LET c == Len(Counted(fn))
              w == fn_call.request.params.dro.witnesses
          IN  /\ isOk(fn_ret) <=> (c >= w /\ c >= 1)
              /\ isOk(fn_ret) => fn_ret = Ok(fn_call.block)

\* two commit transactions for two different data requests meet witnesses = 2
C10_Witness ==
    /\ Returned("block_contains_commitments_for_dr")
    /\ Len(fn_call.block.txns.commit_txns) = 2
    /\ fn_call.block.txns.commit_txns[1] # fn_call.block.txns.commit_txns[2]
    /\ fn_call.request.params.dro.witnesses = 2
    /\ isOk(fn_ret)

----------------------------------------------------------------------------
(* The lifecycle predicates on blocks and requests that lack a field.       *)

FullBlock ==
    WithTallies(Block(1, << DrTx(TheDro) >>, << CommitTx(1) >>, << RevealTx(1) >>),
                << TallyTx(1) >>)

EmptyBlock == Block(1, << >>, << >>, << >>)

Categories == {"data_request_txns", "commit_txns", "reveal_txns", "tally_txns"}

\* a block, and the same block with one of its fields missing
Malformed(block) ==
    { block,
      Without(block, "txns"),
      Without(block, "block_header"),
      [block EXCEPT !.block_header = Without(@, "beacon")],
      [block EXCEPT !.block_header.beacon = Without(@, "checkpoint")] }
    \cup { [block EXCEPT !.txns = Without(@, category)] : category \in Categories }

MalformedBlocks == Malformed(FullBlock) \cup Malformed(EmptyBlock)

\* the request, and the request with one of its fields missing
MalformedRequests ==
    { TheRequest,
      Without(TheRequest, "params"),
      [TheRequest EXCEPT !.params = Without(@, "dro")],
      [TheRequest EXCEPT !.params.dro = Without(@, "witnesses")] }

LifecyclePredicates ==
    { "block_contains_dr", "block_contains_commitments_for_dr",
      "block_contains_reveals_for_dr", "block_contains_tally_for_dr" }

MalformedCalls ==
    { [fn |-> fn, block |-> b, request |-> r] :
         fn \in LifecyclePredicates, b \in MalformedBlocks, r \in MalformedRequests }

InitMalformed ==
    /\ fn_call \in MalformedCalls
    /\ fn_ret = None
    /\ pc = "call"
    /\ args = [tests |-> << >>, prev |-> Ok(Unit)]
    /\ tests = << >>
    /\ prev = Ok(Unit)
    /\ context = context_init
    /\ retries_left = 0
    /\ stdout = << >>
    /\ calls = << >>
    /\ attempts = [i |-> 0, outs |-> << >>]
    /\ stream = << >>
    /\ reads = << >>
    /\ retries = 0

NextMalformed ==
    \/ CallBlockContainsDr
    \/ CallBlockContainsCommitmentsForDr
    \/ CallBlockContainsRevealsForDr
    \/ CallBlockContainsTallyForDr

SpecMalformed == InitMalformed /\ [][NextMalformed]_vars

----------------------------------------------------------------------------
(* SpecContext: the runs of execute_tests over suites that use the stash    *)
(* and the connection                                                       *)

\* caller-named stash slots, as in example.py
ContextKeys == {"bitcoin_price_json", "bitcoin_price"}

ContextSteps ==
    { IntoContext(k) : k \in ContextKeys }
    \cup { FromContext(k) : k \in ContextKeys }
    \cup { TcpConnect, JsonrpcWrite }

ContextSuites == SeqUpTo(ContextSteps, MaxSteps)

\* execute_tests(tests, prev): the default Ok(()) and other values, the
\* falsy ones among them
ContextInputs == { Ok(Unit), Ok(Num(0)), Ok(Num(1)), Ok(Str("")), Ok(Str("request")) }

InitContext ==
    /\ InitRun(ContextSuites, ContextInputs)
    /\ stream = << >>

NextContext ==
    \/ ExecuteTestsStep
    \/ ExecuteTestsRaised
    \/ ExecuteTestsAbort
    \/ ExecuteTestsEnd

SpecContext == InitContext /\ [][NextContext]_vars

----------------------------------------------------------------------------
(* C11..C13 *)

\* C11: block_contains_tally_for_dr returns Ok(block) if and only if the block
\* holds exactly one tally transaction; with none and with two or more it
\* returns Err.
C11_Tally ==
    Returned("block_contains_tally_for_dr") =>
       LET t == Len(fn_call.block.txns.tally_txns)
       IN  /\ fn_ret = Ok(fn_call.block) <=> t = 1
           /\ t = 0 => fn_ret = Err(Str("there are no tallies inside"))
           /\ t >= 2 => ~isOk(fn_ret)
           /\ isOk(fn_ret) => fn_ret = Ok(fn_call.block)

\* two tallies in the block: Err
C11_Witness ==
    /\ Returned("block_contains_tally_for_dr")
    /\ Len(fn_call.block.txns.tally_txns) = 2
    /\ ~isOk(fn_ret)

\* the call's block or request lacks a field the predicate reads
Faulted ==
    LET block == fn_call.block
        request == fn_call.request
        category == CASE fn_call.fn = "block_contains_dr" -> "data_request_txns"
                      [] fn_call.fn = "block_contains_commitments_for_dr" -> "commit_txns"
                      [] fn_call.fn = "block_contains_reveals_for_dr" -> "reveal_txns"
                      [] fn_call.fn = "block_contains_tally_for_dr" -> "tally_txns"
    IN  \/ no_checkpoint(block)
        \/ no_txns(block, category)
        \/ /\ Len(block.txns[category]) > 0
           /\ \/ fn_call.fn = "block_contains_dr" /\ no_dro(request)
              \/ /\ fn_call.fn \in {"block_contains_commitments_for_dr",
                                    "block_contains_reveals_for_dr"}
                 /\ no_witnesses(request)

\* C12: a lifecycle predicate given a block or a request that lacks an
\* expected field returns an Err value; the fault never leaves the predicate as
\* an exception.
C12_FaultsSwallowed ==
    (pc # "call" /\ fn_call.fn \in LifecyclePredicates /\ Faulted) =>
       /\ pc = "returned"
       /\ Has(fn_ret, "ok")
       /\ ~isOk(fn_ret)

\* C13: on Ok(x), r.and_then(f) calls f once, with x, and returns f(x); on
\* Err it does not call f and returns r; r.and_then(f).and_then(g) and
\* r.and_then(x -> f(x).and_then(g)) agree in their result and in the calls
\* made to f and g.
C13_AndThen ==
    Returned("and_then") =>
       LET r == fn_call.self
           first == fn_ret.first
       IN  /\ isOk(r) =>
                /\ first.log = << [fn |-> "f", arg |-> r.value] >>
                /\ first.result = fn_call.f.table[r.value]
           /\ ~isOk(r) =>
                /\ first.log = << >>
                /\ first.result = r
           /\ fn_ret.chained = fn_ret.nested

\* f and g were both called, and the two ways of chaining agree
C13_Witness ==
    /\ Returned("and_then")
    /\ isOk(fn_call.self)
    /\ Len(fn_ret.chained.log) = 2
    /\ Len(fn_ret.nested.log) = 2
    /\ fn_ret.chained.log[2].fn = "g"
    /\ fn_ret.chained = fn_ret.nested

----------------------------------------------------------------------------
(* C14..C17: wait_for_next_block *)

\* the messages read so far that got this verdict
ReadsWith(verdict) == SelectSeq(reads, LAMBDA rd : rd.verdict = verdict)

\* the calls of the filter made by this wait so far
Evaluations == Len(ReadsWith("passed")) + Len(ReadsWith("failed"))

\* max(n, 1) of the wait's max_retries
Budget == IF TheWait.max_retries >= 1 THEN TheWait.max_retries ELSE 1

\* C14: one wait never calls the filter more than max(n, 1) times, whatever
\* non-block messages come between the blocks: once n blocks have failed the
\* filter the wait has ended with Err.
C14_BoundedEvaluations ==
    /\ Evaluations <= Budget
    /\ (Len(ReadsWith("failed")) >= Budget /\ ReadsWith("passed") = << >>) =>
          WaitReturned /\ ~isOk(prev)

\* no message read by this wait was anything but a block
NoNoise == ReadsWith("ignored") = << >>

\* every message read before the last one was a block the filter refused
FailedBeforeLast == \A j \in 1..(Len(reads) - 1) : reads[j].verdict = "failed"

\* C15: on a stream of blocks only, wait_for_next_block(n, filter) reads at
\* most max(n, 1) blocks; it returns Err after exactly max(n, 1) blocks when
\* none passes, and Ok with the j-th block when that is the first to pass and
\* j <= max(n, 1); n = 0 behaves as n = 1.
C15_ExactlyN ==
    NoNoise =>
       /\ Len(reads) <= Budget
       /\ (Len(ReadsWith("failed")) = Budget) => (WaitReturned /\ ~isOk(prev))
       /\ (WaitReturned /\ ~isOk(prev)) =>
             /\ Len(reads) = Budget
             /\ ReadsWith("failed") = reads
       /\ (WaitReturned /\ isOk(prev)) =>
             /\ reads # << >>
             /\ Last(reads).verdict = "passed"
             /\ FailedBeforeLast
             /\ prev = Ok(Last(reads).msg.params.result)
       /\ (reads # << >> /\ Last(reads).verdict = "passed") => (WaitReturned /\ isOk(prev))

\* three blocks failed the filter of a wait with max_retries 3: Err
C15_Witness ==
    /\ NoNoise
    /\ TheWait.max_retries = 3
    /\ Len(ReadsWith("failed")) = 3
    /\ WaitReturned
    /\ ~isOk(prev)

\* max_retries 0: one block read, no retry
C15_WitnessZero ==
    /\ NoNoise
    /\ TheWait.max_retries = 0
    /\ Len(reads) = 1
    /\ WaitReturned
    /\ ~isOk(prev)

\* the message is a block announcement and the filter, given the block and
\* the input of the step, returns Ok
Passes(msg) ==
    /\ is_block(msg)
    /\ isOk(filter_function(TheWait.filter, msg.params.result, args.prev.value))

\* C16: wait_for_next_block returns Ok(b) only for a block announcement b read
\* during this wait on which filter(b, input) returned Ok, input being the
\* input of the step; never for a non-block message nor a block the filter
\* refused; and it is the first such block, the last message the wait read.
C16_OkOnlyPassingBlock ==
    (WaitReturned /\ isOk(prev)) =>
       /\ reads # << >>
       /\ Passes(Last(reads).msg)
       /\ prev = Ok(Last(reads).msg.params.result)
       /\ \A j \in 1..(Len(reads) - 1) : ~Passes(reads[j].msg)

\* a message that is no block, a block the filter refuses, a block it accepts
C16_Witness ==
    /\ WaitReturned
    /\ isOk(prev)
    /\ Len(reads) = 3
    /\ reads[1].verdict = "ignored"
    /\ reads[2].verdict = "failed"
    /\ stream # << >>

\* the wait has ended without a block passing the filter
Exhausted == WaitReturned /\ ~isOk(prev)

\* what the filter answered on the last message read, a block
LastReason ==
    filter_function(TheWait.filter, Last(reads).msg.params.result, args.prev.value).error

\* C17: the Err of a wait that reached EXHAUSTED carries max_retries and the
\* reason the filter gave for the last block that failed.
C17_ExhaustedCarriesReason ==
    Exhausted =>
       /\ prev.error.max_retries = TheWait.max_retries
       /\ Has(prev.error, "reason")
       /\ prev.error.reason = LastReason

----------------------------------------------------------------------------
(* C18, C19: the stash and the connection.  In a suite of plain steps the   *)
(* j-th entry of calls is the call of the j-th step of the suite.           *)

\* the input the j-th step was called with
InputOf(j) == IF j = 1 THEN args.prev.value ELSE calls[j - 1].result.value

\* the into_context(key) steps that ran before step j
StoresBefore(key, j) ==
    { i \in 1..(j - 1) : args.tests[i] = IntoContext(key) }

\* the greatest element of a set of numbers
Latest(S) == CHOOSE i \in S : \A h \in S : h <= i

\* C18: a from_context(k) step that runs after an into_context(k) step returns
\* Ok(v), v the input of the latest into_context(k) before it, whatever v is,
\* the falsy values included; it returns Err only when k was never stored.
C18_RoundTrip ==
    \A j \in 1..Len(calls) :
       args.tests[j].fn = "from_context" =>
          LET stores == StoresBefore(args.tests[j].key, j)
          IN  IF stores = {}
                 THEN ~isOk(calls[j].result)
                 ELSE calls[j].result = Ok(InputOf(Latest(stores)))

\* the steps before step j that opened a connection
ConnectedBefore(j) ==
    { i \in 1..(j - 1) : args.tests[i] = TcpConnect /\ i <= Len(calls) /\ isOk(calls[i].result) }

\* C19: a jsonrpc_write step reached when no tcp_connect has succeeded in
\* the run returns Err to the runner and raises nothing: the runner prints
\* the Err line of that step.
C19_WriteWithoutConnection ==
    \A j \in 1..Len(args.tests) :
       ( /\ args.tests[j] = JsonrpcWrite
         /\ ConnectedBefore(j) = {}
         /\ Len(tests) <= Len(args.tests) - j
            \/ (Len(tests) = Len(args.tests) - j + 1 /\ pc = "raised") ) =>
          /\ pc # "raised"
          /\ Len(calls) >= j
          /\ ~isOk(calls[j].result)

====
